---------------------------- MODULE Spec2Model ----------------------------
(***************************************************************************)
(* A model of the School-Report-Maker extraction pipeline                  *)
(* (src/processing_helpers.py) and of the Streamlit handler that drives it *)
(* (src/app.py).                                                           *)
(*                                                                         *)
(* Text.  A Python str is a sequence of atoms.  An atom is a one-character *)
(* string when the character matters to the code (a digit, ".", "-", "+",  *)
(* "(", ")", ",", the blank " "), and otherwise an opaque run of           *)
(* characters                                                              *)
(* that holds no whitespace, digit or punctuation the code looks at: a     *)
(* word ("Oral"), a field label ("Name:") or a date ("05/06/2025").        *)
(* Substring tests, str.split, str.join, int(), float() and the regular    *)
(* expressions are computed on these sequences.                            *)
(*                                                                         *)
(* Numbers.  A float is [nan, inf, x10]: x10 is ten times its value, so    *)
(* one decimal place is exact.                                             *)
(***************************************************************************)
EXTENDS Integers, Sequences, FiniteSets, TLC

VARIABLES
    ss,          \* classify_band: the argument
    band,        \* classify_band: the value returned, NotCalled before the call
    test_list,   \* extract_test_data: the argument (a list of lines)
    df,          \* extract_test_data: [called, rows], the table returned
    lines,       \* extract_administrative_info_and_make_df: the argument
    admin_out,   \* ... and its outcome: the tuple returned, or the exception
    pages,       \* the pipeline's input: the lines of each page
    pc,          \* the pipeline's position: "idle", "text", "admin", "tests", "done"
    lines_until_stop,   \* the list get_all_the_scores_text returned last
    tables,      \* the tables of the run: admin_df, tests_df, oral_df, achievement_df
    history,     \* the completed runs, oldest first: the input and its tables
    uploaded_file,    \* the file the uploader widget holds, NoFile when empty
    session_state,    \* st.session_state: docx_path, pdf_path, generated, admin_df
    template_exists,  \* os.path.exists("Testing Template.docx")
    image_exists,     \* os.path.exists("Screenshot 2025-05-06 210329.png")
    tmp_files,        \* the temporary files written so far; a path is an index, 0 is None
    crashed,          \* the last script run ended in an uncaught exception
    download,         \* the download section the last script run rendered
    last_return,      \* what process_pdf_and_generate_reports returned in the last run
    dataframes,       \* render_paginated_tables: the list of dataframes handed in
    max_rows,         \* render_paginated_tables: the rows a page may hold
    table_df,         \* create_band_table: [called, title, rows], the table returned
    pdf_pages         \* render_paginated_tables: [called, pages], the pages saved

bandVars == <<ss, band>>
extractVars == <<test_list, df>>
adminVars == <<lines, admin_out>>
pipeVars == <<pages, pc, lines_until_stop, tables, history>>
appVars == <<uploaded_file, session_state, template_exists, image_exists, tmp_files,
            crashed, download, last_return>>
renderVars == <<dataframes, max_rows, table_df, pdf_pages>>
vars == <<ss, band, test_list, df, lines, admin_out, pages, pc, lines_until_stop, tables,
          history, uploaded_file, session_state, template_exists, image_exists, tmp_files,
          crashed, download, last_return, dataframes, max_rows, table_df, pdf_pages>>

NotCalled == "<not called>"
NoTable == [called |-> FALSE, rows |-> <<>>]
NoFields == [k \in {} |-> <<>>]
NoAdmin == [called |-> FALSE, raised |-> FALSE, admin_df |-> NoFields, tests_df |-> <<>>, idx |-> 0]
NoTables == [status |-> "none", admin_df |-> NoFields, tests_df |-> <<>>, oral_df |-> <<>>,
             achievement_df |-> <<>>]


---------------------------------------------------------------------------
(* Sequences *)

Range(s) == {s[i] : i \in 1..Len(s)}

SeqsUpTo(S, n) == UNION {[1..k -> S] : k \in 0..n}

RECURSIVE Concat(_)
Concat(ss_) == IF ss_ = <<>> THEN <<>> ELSE Head(ss_) \o Concat(Tail(ss_))

Min(S) == CHOOSE x \in S : \A y \in S : x <= y
Max(S) == CHOOSE x \in S : \A y \in S : x >= y

---------------------------------------------------------------------------
(* Python text primitives *)

Digits == {"0", "1", "2", "3", "4", "5", "6", "7", "8", "9"}

DigitVal(c) ==
    CASE c = "0" -> 0 [] c = "1" -> 1 [] c = "2" -> 2 [] c = "3" -> 3
      [] c = "4" -> 4 [] c = "5" -> 5 [] c = "6" -> 6 [] c = "7" -> 7
      [] c = "8" -> 8 [] c = "9" -> 9

IsSpace(a) == a = " "

\* str.isdigit(): non-empty and every character a digit.
IsDigitStr(s) == s # <<>> /\ \A i \in 1..Len(s) : s[i] \in Digits

RECURSIVE DigitsValue(_)
DigitsValue(s) ==
    IF s = <<>> THEN 0
    ELSE 10 * DigitsValue(SubSeq(s, 1, Len(s) - 1)) + DigitVal(s[Len(s)])

\* str.replace('.', '', 1): the first "." removed.
RemoveFirstDot(s) ==
    IF \E i \in 1..Len(s) : s[i] = "."
    THEN LET i == Min({j \in 1..Len(s) : s[j] = "."})
         IN  SubSeq(s, 1, i - 1) \o SubSeq(s, i + 1, Len(s))
    ELSE s

\* str.strip(): leading and trailing whitespace removed.
RECURSIVE LStrip(_)
LStrip(s) == IF s # <<>> /\ IsSpace(Head(s)) THEN LStrip(Tail(s)) ELSE s

RECURSIVE RStrip(_)
RStrip(s) ==
    IF s # <<>> /\ IsSpace(s[Len(s)]) THEN RStrip(SubSeq(s, 1, Len(s) - 1)) ELSE s

Strip(s) == LStrip(RStrip(s))

\* str.split(): the maximal runs of non-whitespace, in order.
RECURSIVE Split(_)
Split(s) ==
    LET t == LStrip(s)
    IN  IF t = <<>> THEN <<>>
        ELSE LET stops == {i \in 1..Len(t) : IsSpace(t[i])}
                 n == IF stops = {} THEN Len(t) ELSE Min(stops) - 1
             IN  <<SubSeq(t, 1, n)>> \o Split(SubSeq(t, n + 1, Len(t)))

\* ' '.join(tokens)
RECURSIVE JoinSpace(_)
JoinSpace(toks) ==
    IF toks = <<>> THEN <<>>
    ELSE IF Len(toks) = 1 THEN toks[1]
    ELSE toks[1] \o <<" ">> \o JoinSpace(Tail(toks))

\* int(token) for a token without whitespace: an optional sign, then digits.
\* ok = FALSE stands for ValueError.
ParseInt(tok) ==
    LET signed == tok # <<>> /\ tok[1] \in {"-", "+"}
        body == IF signed THEN Tail(tok) ELSE tok
    IN  IF IsDigitStr(body)
        THEN [ok |-> TRUE,
              val |-> IF signed /\ tok[1] = "-" THEN 0 - DigitsValue(body)
                      ELSE DigitsValue(body)]
        ELSE [ok |-> FALSE, val |-> 0]

\* s[i:].startswith(pat)
OccursAt(s, pat, i) ==
    /\ i >= 1
    /\ i + Len(pat) - 1 <= Len(s)
    /\ SubSeq(s, i, i + Len(pat) - 1) = pat

\* pat in s
Contains(s, pat) == \E i \in 1..Len(s) : OccursAt(s, pat, i)

AllSpace(s, from, to) == \A j \in from..to : IsSpace(s[j])

NoMatch == [found |-> FALSE, text |-> <<>>]

\* re.search(lab1 + r"\s*(.*?)\s+" + lab2, line): the leftmost lab1, then
\* the longest \s* and, for it, the shortest group after which whitespace
\* and lab2 follow.  text is group(1).
LazyBetween(line, lab1, lab2) ==
    LET n == Len(line)
        starts == {i \in 1..n : OccursAt(line, lab1, i)}
        cands == {c \in starts \X (0..n) \X (1..(n + 1)) :
                    LET a == c[1] + Len(lab1)
                    IN  /\ a + c[2] - 1 <= n
                        /\ AllSpace(line, a, a + c[2] - 1)
                        /\ a + c[2] <= c[3]
                        /\ \E m \in 1..n : /\ c[3] + m - 1 <= n
                                           /\ AllSpace(line, c[3], c[3] + m - 1)
                                           /\ OccursAt(line, lab2, c[3] + m)}
    IN  IF cands = {} THEN NoMatch
        ELSE LET i == Min({c[1] : c \in cands})
                 k == Max({c[2] : c \in {d \in cands : d[1] = i}})
                 e == Min({c[3] : c \in {d \in cands : d[1] = i /\ d[2] = k}})
             IN  [found |-> TRUE, text |-> SubSeq(line, i + Len(lab1) + k, e - 1)]

\* re.search(lab + r"\s*(.*)", line): the rest of the line after the leftmost
\* lab and the whitespace that follows it.
AfterLabel(line, lab) ==
    IF ~Contains(line, lab) THEN NoMatch
    ELSE LET i == Min({j \in 1..Len(line) : OccursAt(line, lab, j)})
         IN  [found |-> TRUE, text |-> LStrip(SubSeq(line, i + Len(lab), Len(line)))]

---------------------------------------------------------------------------
(* Python values handed to classify_band *)

PyNone == [kind |-> "NoneType", x10 |-> 0, text |-> <<>>]
PyInt(n) == [kind |-> "int", x10 |-> 10 * n, text |-> <<>>]
PyFloat(t) == [kind |-> "float", x10 |-> t, text |-> <<>>]
PyNaN == [kind |-> "nan", x10 |-> 0, text |-> <<>>]
PyStr(s) == [kind |-> "str", x10 |-> 0, text |-> s]

Finite(t) == [err |-> "", nan |-> FALSE, inf |-> 0, x10 |-> t]
NaN == [err |-> "", nan |-> TRUE, inf |-> 0, x10 |-> 0]
Infinity(sign) == [err |-> "", nan |-> FALSE, inf |-> sign, x10 |-> 0]
Raises(e) == [err |-> e, nan |-> FALSE, inf |-> 0, x10 |-> 0]

\* float(str): whitespace stripped, then "nan", "inf"/"infinity", or a
\* decimal numeral with an optional sign and at most one fractional digit
\* (more digits are outside what x10 holds; the inputs drawn have none).
ParseFloat(s) ==
    LET t == Strip(s)
        signed == t # <<>> /\ t[1] \in {"-", "+"}
        sgn == IF signed /\ t[1] = "-" THEN 0 - 1 ELSE 1
        u == IF signed THEN Tail(t) ELSE t
        dots == {i \in 1..Len(u) : u[i] = "."}
    IN  IF u \in {<<"nan">>, <<"NaN">>} THEN NaN
        ELSE IF u \in {<<"inf">>, <<"infinity">>} THEN Infinity(sgn)
        ELSE IF dots = {}
             THEN IF IsDigitStr(u) THEN Finite(sgn * 10 * DigitsValue(u))
                  ELSE Raises("ValueError")
        ELSE LET d == Min(dots)
                 ip == SubSeq(u, 1, d - 1)
                 fp == SubSeq(u, d + 1, Len(u))
             IN  IF /\ ip \o fp # <<>>
                    /\ \A i \in 1..Len(ip) : ip[i] \in Digits
                    /\ Len(fp) <= 1
                    /\ \A i \in 1..Len(fp) : fp[i] \in Digits
                 THEN Finite(sgn * (10 * DigitsValue(ip) + DigitsValue(fp)))
                 ELSE Raises("ValueError")

\* float(ss)
ToFloat(v) ==
    CASE v.kind = "int" -> Finite(v.x10)
      [] v.kind = "float" -> Finite(v.x10)
      [] v.kind = "nan" -> NaN
      [] v.kind = "str" -> ParseFloat(v.text)
      [] OTHER -> Raises("TypeError")

\* f < c for a float f and an integer literal c: false for a NaN.
FloatLess(f, c) ==
    /\ ~f.nan
    /\ \/ f.inf = 0 - 1
       \/ f.inf = 0 /\ f.x10 < 10 * c

NoFile == "<no file>"
NoPath == 0
NoAdminDf == [set |-> FALSE, fields |-> NoFields]

\* app.py lines 19-26: the defaults of the session state.
SessionDefaults ==
    [docx_path |-> NoPath, pdf_path |-> NoPath, generated |-> FALSE, admin_df |-> NoAdminDf]

NoDownload == [shown |-> FALSE, docx_path |-> NoPath, pdf_path |-> NoPath]
NoReturn == [called |-> FALSE, docx_path |-> NoPath, pdf_path |-> NoPath]

\* The variables of a component that is not running.
AppIdle ==
    /\ uploaded_file = NoFile
    /\ session_state = SessionDefaults
    /\ template_exists = TRUE
    /\ image_exists = TRUE
    /\ tmp_files = <<>>
    /\ crashed = FALSE
    /\ download = NoDownload
    /\ last_return = NoReturn

BandIdle == ss = PyNone /\ band = NotCalled

\* render_paginated_tables: max_rows=10
MaxRowsPerPage == 10

NoBandTable == [called |-> FALSE, title |-> <<>>, rows |-> <<>>]
NoPages == [called |-> FALSE, pages |-> <<>>]
RenderIdle ==
    /\ dataframes = <<>>
    /\ max_rows = MaxRowsPerPage
    /\ table_df = NoBandTable
    /\ pdf_pages = NoPages
ExtractIdle == test_list = <<>> /\ df = NoTable
AdminIdle == lines = <<>> /\ admin_out = NoAdmin
PipeIdle ==
    /\ pages = <<>>
    /\ pc = "idle"
    /\ lines_until_stop = <<>>
    /\ tables = NoTables
    /\ history = <<>>

---------------------------------------------------------------------------
(* classify_band *)

VeryLowBelow == 70
LowBelow == 80
LowAverageBelow == 90
AverageBelow == 110
HighAverageBelow == 120

\* band_colors.keys(), in insertion order
BandColumns == <<"Very Low", "Low", "Low Average", "Average", "High Average", "Superior">>
BandLabels == Range(BandColumns)

\* A plausible slip: the first threshold compared with <= instead of <.
classify_band_le(v) ==
    LET f == ToFloat(v)
    IN  IF f.err # "" THEN "N/A"
        ELSE IF FloatLess(f, VeryLowBelow) \/ f = Finite(10 * VeryLowBelow) THEN "Very Low"
        ELSE IF FloatLess(f, LowBelow) THEN "Low"
        ELSE IF FloatLess(f, LowAverageBelow) THEN "Low Average"
        ELSE IF FloatLess(f, AverageBelow) THEN "Average"
        ELSE IF FloatLess(f, HighAverageBelow) THEN "High Average"
        ELSE "Superior"

classify_band(v) ==
    LET f == ToFloat(v)
    IN  IF f.err # "" THEN "N/A"
        ELSE IF FloatLess(f, VeryLowBelow) THEN "Very Low"
        ELSE IF FloatLess(f, LowBelow) THEN "Low"
        ELSE IF FloatLess(f, LowAverageBelow) THEN "Low Average"
        ELSE IF FloatLess(f, AverageBelow) THEN "Average"
        ELSE IF FloatLess(f, HighAverageBelow) THEN "High Average"
        ELSE "Superior"

\* The largest standard score drawn; floats are drawn in tenths up to it.
MaxScore == 125

NumeralTexts ==
    {<<"6", "9">>, <<"7", "0">>, <<"6", "9", ".", "9">>, <<"1", "1", "9">>,
     <<"1", "2", "0">>, <<" ", "8", "0", " ">>, <<"-", "5">>, <<"+", "9", "0">>,
     <<"inf">>, <<"-", "inf">>}

NonNumericTexts ==
    {<<>>, <<"abc">>, <<"N/A">>, <<"8", "5", "x">>, <<"1", ".", "2", ".", "3">>,
     <<"-">>, <<".">>}

NumericInputs ==
    {PyInt(n) : n \in 0..MaxScore}
        \cup {PyFloat(t) : t \in 0..(10 * MaxScore)}
        \cup {PyStr(s) : s \in NumeralTexts}

MissingInputs ==
    {PyNone, PyNaN, PyStr(<<"nan">>)} \cup {PyStr(s) : s \in NonNumericTexts}

BandInputs == NumericInputs \cup MissingInputs

InitBand ==
    /\ ss \in BandInputs
    /\ band = NotCalled
    /\ ExtractIdle /\ AdminIdle /\ PipeIdle /\ AppIdle /\ RenderIdle

ClassifyBand ==
    /\ band = NotCalled
    /\ band' = classify_band(ss)
    /\ UNCHANGED <<ss, extractVars, adminVars, pipeVars, appVars, renderVars>>

NextBand == ClassifyBand

SpecBand == InitBand /\ [][NextBand]_vars

\* C1: for every numeric standard score s, classify_band(s) is "Very Low"
\* below 70, "Low" in [70,80), "Low Average" in [80,90), "Average" in
\* [90,110), "High Average" in [110,120) and "Superior" from 120 on; numeric
\* strings and the infinities are classified by their value.
ExpectedBand(x10) ==
    IF x10 < 700 THEN "Very Low"
    ELSE IF x10 < 800 THEN "Low"
    ELSE IF x10 < 900 THEN "Low Average"
    ELSE IF x10 < 1100 THEN "Average"
    ELSE IF x10 < 1200 THEN "High Average"
    ELSE "Superior"

C1_BandThresholds ==
    band # NotCalled =>
        /\ ss.kind \in {"int", "float"} => band = ExpectedBand(ss.x10)
        /\ ss = PyInt(69) => band = "Very Low"
        /\ ss = PyInt(70) => band = "Low"
        /\ ss = PyInt(119) => band = "High Average"
        /\ ss = PyInt(120) => band = "Superior"
        /\ ss = PyStr(<<"6", "9">>) => band = "Very Low"
        /\ ss = PyStr(<<"7", "0">>) => band = "Low"
        /\ ss = PyStr(<<"6", "9", ".", "9">>) => band = "Very Low"
        /\ ss = PyStr(<<"1", "1", "9">>) => band = "High Average"
        /\ ss = PyStr(<<"1", "2", "0">>) => band = "Superior"
        /\ ss = PyStr(<<" ", "8", "0", " ">>) => band = "Low Average"
        /\ ss = PyStr(<<"-", "5">>) => band = "Very Low"
        /\ ss = PyStr(<<"+", "9", "0">>) => band = "Average"
        /\ ss = PyStr(<<"inf">>) => band = "Superior"
        /\ ss = PyStr(<<"-", "inf">>) => band = "Very Low"

\* C1 witness: the score 70, exactly on a threshold, has been classified.
C1_Witness == ss = PyInt(70) /\ band = "Low"

\* C2 (as claimed): a missing or non-numeric input (None, a non-numeric
\* string, a not-a-number value) is classified "N/A".
C2_MissingIsNA == band # NotCalled /\ ss \in MissingInputs => band = "N/A"

---------------------------------------------------------------------------
(* extract_test_data *)

MinTokens == 5

Row(name, s, p) == [TestCluster |-> name, SS |-> s, PR |-> p]
NoRow == [skip |-> TRUE, row |-> Row(<<>>, 0, 0)]

\* token.replace('.', '', 1).isdigit()
LooksNumeric(tok) == IsDigitStr(RemoveFirstDot(tok))

\* A plausible slip: tokens[:i + 1], the name runs through the first number.
ParseScoreLine_through(line) ==
    LET tokens == Split(Strip(line))
        n == Len(tokens)
    IN  IF n < MinTokens THEN NoRow
        ELSE LET s == ParseInt(tokens[n - 1])
                 p == ParseInt(tokens[n])
                 hits == {i \in 1..n : LooksNumeric(tokens[i])}
             IN  IF ~s.ok \/ ~p.ok THEN NoRow
                 ELSE IF hits = {} THEN NoRow
                 ELSE [skip |-> FALSE,
                       row |-> Row(JoinSpace(SubSeq(tokens, 1, Min(hits))), s.val, p.val)]

\* A plausible slip: the length guard off by one (len(tokens) < 4).
ParseScoreLine_short(line) ==
    LET tokens == Split(Strip(line))
        n == Len(tokens)
    IN  IF n < MinTokens - 1 \/ n < 2 THEN NoRow
        ELSE LET s == ParseInt(tokens[n - 1])
                 p == ParseInt(tokens[n])
                 hits == {i \in 1..n : LooksNumeric(tokens[i])}
             IN  IF ~s.ok \/ ~p.ok THEN NoRow
                 ELSE IF hits = {} THEN NoRow
                 ELSE [skip |-> FALSE,
                       row |-> Row(JoinSpace(SubSeq(tokens, 1, Min(hits) - 1)), s.val, p.val)]

\* One pass of the loop body: the row appended for the line, or the skip.
ParseScoreLine(line) ==
    LET tokens == Split(Strip(line))
        n == Len(tokens)
    IN  IF n < MinTokens THEN NoRow
        ELSE LET s == ParseInt(tokens[n - 1])
                 p == ParseInt(tokens[n])
                 hits == {i \in 1..n : LooksNumeric(tokens[i])}
             IN  IF ~s.ok \/ ~p.ok THEN NoRow          \* except ValueError
                 ELSE IF hits = {} THEN NoRow          \* for ... else: continue
                 ELSE [skip |-> FALSE,
                       row |-> Row(JoinSpace(SubSeq(tokens, 1, Min(hits) - 1)), s.val, p.val)]

\* rows after the loop, appended to the list the loop started with.
RECURSIVE CollectRows(_, _)
CollectRows(rows, lines_) ==
    IF lines_ = <<>> THEN rows
    ELSE LET r == ParseScoreLine(Head(lines_))
         IN  CollectRows(IF r.skip THEN rows ELSE Append(rows, r.row), Tail(lines_))

RowKey(r) == <<r.TestCluster, r.SS, r.PR>>

\* A plausible slip: drop_duplicates(subset=['Test/Cluster']).
RECURSIVE DropDuplicates_byName(_)
DropDuplicates_byName(rows) ==
    IF rows = <<>> THEN <<>>
    ELSE LET before == SubSeq(rows, 1, Len(rows) - 1)
             last == rows[Len(rows)]
         IN  IF \E i \in 1..Len(before) : before[i].TestCluster = last.TestCluster
             THEN DropDuplicates_byName(before)
             ELSE Append(DropDuplicates_byName(before), last)

\* df.drop_duplicates(subset=['Test/Cluster', 'SS', 'PR']): keep='first'.
RECURSIVE DropDuplicates(_)
DropDuplicates(rows) ==
    IF rows = <<>> THEN <<>>
    ELSE LET before == SubSeq(rows, 1, Len(rows) - 1)
             last == rows[Len(rows)]
         IN  IF \E i \in 1..Len(before) : RowKey(before[i]) = RowKey(last)
             THEN DropDuplicates(before)
             ELSE Append(DropDuplicates(before), last)

extract_test_data(lines_) == DropDuplicates(CollectRows(<<>>, lines_))

\* Inputs.  Single lines of up to MaxTokens tokens drawn from TokenPool,
\* spaced tightly or loosely, and lists of up to MaxLines lines of LinePool.
MaxTokens == 5
MaxLines == 3

TokenPool == {<<"Oral">>, <<"9", "5">>, <<"7">>, <<"4", ".", "5">>, <<"-", "7">>}

RECURSIVE JoinWide(_)
JoinWide(toks) ==
    IF toks = <<>> THEN <<" ">>
    ELSE <<" ">> \o Head(toks) \o <<" ">> \o JoinWide(Tail(toks))

LineOf(toks, wide) == IF wide THEN JoinWide(toks) ELSE JoinSpace(toks)

GeneratedLines ==
    {LineOf(toks, wide) : toks \in SeqsUpTo(TokenPool, MaxTokens), wide \in BOOLEAN}

LinePool ==
    {LineOf(<<name, <<"Oral">>, <<"4", ".", "5">>, s, p>>, FALSE) :
        name \in {<<"Oral">>, <<"ORAL">>}, s \in {<<"9", "5">>, <<"7">>},
        p \in {<<"9", "5">>, <<"7">>}}
      \cup {LineOf(<<<<"Oral">>, <<"Oral">>, <<"4", ".", "5">>, <<"9", "5">>, <<"7">>>>, TRUE),
            LineOf(<<<<"Oral">>, <<"4", ".", "5">>, <<"9", "5">>, <<"7">>>>, FALSE),
            LineOf(<<<<"Oral">>, <<"Oral">>, <<"4", ".", "5">>, <<"9", "5">>, <<"Oral">>>>, FALSE)}

TestLists == {<<l>> : l \in GeneratedLines} \cup SeqsUpTo(LinePool, MaxLines)

InitExtract ==
    /\ test_list \in TestLists
    /\ df = NoTable
    /\ BandIdle /\ AdminIdle /\ PipeIdle /\ AppIdle /\ RenderIdle

ExtractTestData ==
    /\ ~df.called
    /\ df' = [called |-> TRUE, rows |-> extract_test_data(test_list)]
    /\ UNCHANGED <<test_list, bandVars, adminVars, pipeVars, appVars, renderVars>>

NextExtract == ExtractTestData

SpecExtract == InitExtract /\ [][NextExtract]_vars

\* Stated apart from the code's tests: a token is an unsigned numeral when it
\* is made of digits and at most one ".", with at least one digit; it is an
\* integer numeral when it is digits after an optional sign.
UnsignedNumeral(tok) ==
    /\ \A i \in 1..Len(tok) : tok[i] \in Digits \cup {"."}
    /\ Cardinality({i \in 1..Len(tok) : tok[i] = "."}) <= 1
    /\ \E i \in 1..Len(tok) : tok[i] \in Digits

IntegerNumeral(tok) ==
    /\ tok # <<>>
    /\ \A i \in 2..Len(tok) : tok[i] \in Digits
    /\ tok[1] \in Digits \/ (tok[1] \in {"-", "+"} /\ Len(tok) >= 2)

SingleLongLine ==
    df.called /\ Len(test_list) = 1 /\ Len(Split(test_list[1])) >= 5

\* C3 (as claimed): for a line of five or more tokens, the line is skipped
\* exactly when its SS token or its PR token fails to parse as an integer.
C3_SkippedIffParseFails ==
    SingleLongLine =>
        LET toks == Split(test_list[1])
            n == Len(toks)
        IN  df.rows = <<>> <=> ~(IntegerNumeral(toks[n - 1]) /\ IntegerNumeral(toks[n]))

\* C3 (amended): for a line of five or more tokens, the line yields one row
\* whose name is the tokens before the first unsigned numeral (digits with at
\* most one ".") joined by single spaces, whose SS is the second-to-last token
\* and whose PR is the last token as integers; it is skipped exactly when the
\* SS or PR token is no integer numeral or the line has no unsigned numeral.
C3_FirstNumeralRow ==
    SingleLongLine =>
        LET toks == Split(test_list[1])
            n == Len(toks)
            nums == {i \in 1..n : UnsignedNumeral(toks[i])}
            recognised == IntegerNumeral(toks[n - 1]) /\ IntegerNumeral(toks[n]) /\ nums # {}
        IN  IF recognised
            THEN /\ Len(df.rows) = 1
                 /\ df.rows[1].TestCluster = JoinSpace(SubSeq(toks, 1, Min(nums) - 1))
                 /\ df.rows[1].SS = ParseInt(toks[n - 1]).val
                 /\ df.rows[1].PR = ParseInt(toks[n]).val
            ELSE df.rows = <<>>

\* C3 witness: a loosely spaced line "Oral Oral 4.5 95 7" gave the row
\* ("Oral Oral", 95, 7).
C3_Witness ==
    /\ df.called
    /\ test_list = <<JoinWide(<<<<"Oral">>, <<"Oral">>, <<"4", ".", "5">>, <<"9", "5">>, <<"7">>>>)>>
    /\ df.rows = <<Row(<<"Oral", " ", "Oral">>, 95, 7)>>

\* C4: a line with fewer than five tokens contributes no row, whatever its
\* tokens: the table is the one the longer lines alone give, and is empty
\* when every line is short.
IsLongLine(line) == Len(Split(line)) >= 5

C4_ShortLinesSkipped ==
    df.called =>
        /\ df.rows = extract_test_data(SelectSeq(test_list, IsLongLine))
        /\ (\A i \in 1..Len(test_list) : ~IsLongLine(test_list[i])) => df.rows = <<>>

\* C4 witness: the four-token line "Oral 4.5 95 7", whose last two tokens are
\* integers, was read and gave no row.
C4_Witness ==
    /\ df.called
    /\ test_list = <<<<"Oral", " ", "4", ".", "5", " ", "9", "5", " ", "7">>>>
    /\ df.rows = <<>>

\* C10: the table holds each recognised (name, SS, PR) triple exactly once, in
\* the order of the triples' first occurrences; rows that differ in any field
\* are all kept.
RecognisedRows == CollectRows(<<>>, test_list)

FirstAt(rows, r) == Min({i \in 1..Len(rows) : rows[i] = r})

C10_DeduplicatedInOrder ==
    df.called =>
        /\ \A i, j \in 1..Len(df.rows) : i # j => RowKey(df.rows[i]) # RowKey(df.rows[j])
        /\ Range(df.rows) = Range(RecognisedRows)
        /\ \A i, j \in 1..Len(df.rows) :
              i < j => FirstAt(RecognisedRows, df.rows[i]) < FirstAt(RecognisedRows, df.rows[j])

\* C10 witness: three recognised lines, two of them the same triple and the
\* third differing from it in the PR alone, gave two rows.
C10_Witness ==
    /\ df.called
    /\ Len(RecognisedRows) = 3
    /\ Len(df.rows) = 2
    /\ df.rows[1].TestCluster = df.rows[2].TestCluster
    /\ df.rows[1].SS = df.rows[2].SS
    /\ df.rows[1].PR # df.rows[2].PR

---------------------------------------------------------------------------
(* extract_administrative_info_and_make_df *)

BasicInfoEnd == 10
ScoresStart == 10

TestsAdministered == <<"TESTS", " ", "ADMINISTERED">>
NameLabel == <<"Name:">>
SchoolLabel == <<"School:">>
BirthLabel == <<"Date", " ", "of", " ", "Birth:">>
TeacherLabel == <<"Teacher:">>
AgeLabel == <<"Age:">>
GradeLabel == <<"Grade:">>
SexLabel == <<"Sex:">>
IdLabel == <<"ID:">>
TestingLabel == <<"Date", " ", "of", " ", "Testing:">>

\* The atoms that match \d{2}/\d{2}/\d{4}.
DateAtoms == {"01/02/2010", "05/06/2025", "05/07/2025"}

\* date_line_pattern, (\d{2}/\d{2}/\d{4})\s+\(([^)]+)\), matched at index i:
\* a date, whitespace, "(", one or more atoms other than ")", then ")".
DateMatchAt(line, i) ==
    LET n == Len(line)
        ends == {q \in (i + 1)..n : AllSpace(line, i + 1, q) /\ q + 1 <= n /\ line[q + 1] = "("}
    IN  IF i > n \/ i < 1 THEN NoMatch
        ELSE IF line[i] \notin DateAtoms \/ ends = {} THEN NoMatch
        ELSE LET open == Max(ends) + 1
                 closes == {c \in (open + 1)..n : line[c] = ")"}
             IN  IF closes = {} THEN NoMatch
                 ELSE IF Min(closes) = open + 1 THEN NoMatch
                 ELSE [found |-> TRUE,
                       text |-> <<line[i], SubSeq(line, open + 1, Min(closes) - 1)>>]

\* date_line_pattern.search(line)
DateSearch(line) ==
    LET hits == {i \in 1..Len(line) : DateMatchAt(line, i).found}
    IN  IF hits = {} THEN NoMatch ELSE DateMatchAt(line, Min(hits))

\* date_line_pattern.match(line)
DateMatch(line) == DateMatchAt(line, 1)

Put(f, k, v) == [x \in DOMAIN f \cup {k} |-> IF x = k THEN v ELSE f[x]]

Failed(st) == [st EXCEPT !.raised = TRUE]

\* Both groups of a two-label line stored, or the AttributeError of
\* None.group(1) when the first pattern does not match.
TwoFields(st, line, lab1, key1, lab2, key2) ==
    LET m == LazyBetween(line, lab1, lab2)
    IN  IF ~m.found THEN Failed(st)
        ELSE [st EXCEPT !.admin_data =
                 Put(Put(st.admin_data, key1, m.text), key2, AfterLabel(line, lab2).text)]

\* The body of the first loop over admin_lines (the if/elif chain).
AdminLine(st, line) ==
    IF st.raised THEN st
    ELSE IF Contains(line, NameLabel) /\ Contains(line, SchoolLabel)
    THEN TwoFields(st, line, NameLabel, "Name", SchoolLabel, "School")
    ELSE IF Contains(line, BirthLabel) /\ Contains(line, TeacherLabel)
    THEN TwoFields(st, line, BirthLabel, "Date of Birth", TeacherLabel, "Teacher")
    ELSE IF Contains(line, AgeLabel) /\ Contains(line, GradeLabel)
    THEN TwoFields(st, line, AgeLabel, "Age", GradeLabel, "Grade")
    ELSE IF Contains(line, SexLabel)
    THEN LET m == LazyBetween(line, SexLabel, IdLabel)
         IN  IF ~m.found THEN Failed(st)
             ELSE [st EXCEPT !.admin_data = Put(st.admin_data, "Sex", m.text)]
    ELSE IF Contains(line, TestingLabel)
    THEN LET m == DateSearch(line)
         IN  IF m.found THEN [st EXCEPT !.test_dates = Append(st.test_dates, m.text)]
             ELSE st
    ELSE st

RECURSIVE AdminLines(_, _)
AdminLines(st, ls) ==
    IF ls = <<>> THEN st ELSE AdminLines(AdminLine(st, Head(ls)), Tail(ls))

\* The second loop: a line that starts with a date not yet listed adds it.
RECURSIVE DateLines(_, _)
DateLines(st, ls) ==
    IF ls = <<>> THEN st
    ELSE LET m == DateMatch(Head(ls))
         IN  DateLines(IF m.found /\ m.text \notin Range(st.test_dates)
                       THEN [st EXCEPT !.test_dates = Append(st.test_dates, m.text)]
                       ELSE st,
                       Tail(ls))

\* The third loop: test names paired with the dates, by position.
PairTests(test_lines, test_dates) ==
    [i \in 1..Min({Len(test_lines), Len(test_dates)}) |->
        [TestDate |-> test_dates[i][1], TestAbbrev |-> test_dates[i][2],
         TestName |-> test_lines[i]]]

AdminRaised == [called |-> TRUE, raised |-> TRUE, admin_df |-> NoFields, tests_df |-> <<>>, idx |-> 0]

BasicInfo(ls) == SubSeq(ls, 2, Min({BasicInfoEnd, Len(ls)}))

extract_administrative_info_and_make_df(ls) ==
    LET basic_info == BasicInfo(ls)
        at == {i \in 1..Len(basic_info) : basic_info[i] = TestsAdministered}
    IN  IF at = {} THEN AdminRaised                    \* list.index: ValueError
        ELSE LET test_section_index == Min(at)
                 admin_lines == SubSeq(basic_info, 1, test_section_index - 1)
                 test_lines == SubSeq(basic_info, test_section_index + 1, Len(basic_info))
                 st0 == [raised |-> FALSE, admin_data |-> NoFields, test_dates |-> <<>>]
                 st1 == AdminLines(st0, admin_lines)
                 st2 == DateLines(st1, admin_lines)
             IN  IF st1.raised THEN AdminRaised
                 ELSE [called |-> TRUE, raised |-> FALSE,
                       admin_df |-> st2.admin_data,
                       tests_df |-> PairTests(test_lines, st2.test_dates),
                       idx |-> ScoresStart]

\* Inputs.  lines[0] is the report's heading; then administrative lines, the
\* "TESTS ADMINISTERED" line and the test names.  One administrative line of
\* up to MaxAdminAtoms atoms around "Name:" and "School:", or up to
\* MaxAdminLines lines of AdminLinePool.
MaxAdminAtoms == 5
MaxAdminLines == 2

Heading == <<"Score", " ", "Report">>
OralName == <<"Tests", " ", "of", " ", "Oral", " ", "Language">>
AchName == <<"Tests", " ", "of", " ", "Achievement">>

NameSchoolLine ==
    <<"Name:", " ", "Doe", ",", " ", "Jane", " ", " ", " ", "School:", " ", "Lincoln", " ", "ES">>
BirthTeacherLine == BirthLabel \o <<" ", "01/02/2010", " ", "Teacher:", " ", "Smith">>
AgeGradeLine == <<"Age:", " ", "1", "5", "-", "4", " ", "Grade:", " ", "9", ".", "8">>
SexIdLine == <<"Sex:", " ", "Male", " ", "ID:", " ", "1", "2", "3">>
TestingLine == TestingLabel \o <<" ", "05/06/2025", " ", "(", "OL", ")">>
MoreDateLine == <<"05/07/2025", " ", "(", "ACH", ")">>

AdminLinePool ==
    {NameSchoolLine, BirthTeacherLine, AgeGradeLine, SexIdLine, TestingLine, MoreDateLine,
     <<"Name:", " ", "Doe", ",", " ", "Jane">>,
     <<"Teacher:", " ", "Smith">>,
     <<"Sex:", " ", "Male">>,
     TestingLabel \o <<" ", "05/06/2025">>}

GeneratedAdminLines == SeqsUpTo({"Name:", "School:", " ", "Doe"}, MaxAdminAtoms)

TestTails ==
    {<<>>, <<TestsAdministered>>, <<TestsAdministered, OralName>>,
     <<TestsAdministered, OralName, AchName>>}

AdminDocs ==
    {<<Heading, l, TestsAdministered, OralName>> : l \in GeneratedAdminLines}
      \cup {<<Heading>> \o ls \o t : ls \in SeqsUpTo(AdminLinePool, MaxAdminLines), t \in TestTails}

InitAdmin ==
    /\ lines \in AdminDocs
    /\ admin_out = NoAdmin
    /\ BandIdle /\ ExtractIdle /\ PipeIdle /\ AppIdle /\ RenderIdle

ExtractAdministrativeInfo ==
    /\ ~admin_out.called
    /\ admin_out' = extract_administrative_info_and_make_df(lines)
    /\ UNCHANGED <<lines, bandVars, extractVars, pipeVars, appVars, renderVars>>

NextAdmin == ExtractAdministrativeInfo

SpecAdmin == InitAdmin /\ [][NextAdmin]_vars

HasTestsLine(ls) == TestsAdministered \in Range(BasicInfo(ls))

\* The administrative lines: those of lines[1:10] before "TESTS ADMINISTERED".
AdminLinesOf(ls) ==
    LET b == BasicInfo(ls)
    IN  SubSeq(b, 1, Min({i \in 1..Len(b) : b[i] = TestsAdministered}) - 1)

LabelPairs ==
    {<<NameLabel, SchoolLabel, {"Name", "School"}>>,
     <<BirthLabel, TeacherLabel, {"Date of Birth", "Teacher"}>>,
     <<AgeLabel, GradeLabel, {"Age", "Grade"}>>,
     <<SexLabel, IdLabel, {"Sex"}>>}

\* Both labels of a pair are on the line, but not as "first ... second".
Garbled(l) ==
    \E pr \in LabelPairs :
        Contains(l, pr[1]) /\ Contains(l, pr[2]) /\ ~LazyBetween(l, pr[1], pr[2]).found

\* C5 (as claimed): when an expected label is absent from its line (a line
\* with "Sex:" but no "ID:", or no line carrying a label at all), the parser
\* returns normally and the field is omitted from the record.
C5_AbsentLabelOmitted ==
    (/\ admin_out.called
     /\ HasTestsLine(lines)
     /\ \A l \in Range(AdminLinesOf(lines)) : ~Garbled(l))
    => /\ ~admin_out.raised
       /\ \A pr \in LabelPairs :
             (\A l \in Range(AdminLinesOf(lines)) : ~(Contains(l, pr[1]) /\ Contains(l, pr[2])))
                => pr[3] \cap DOMAIN admin_out.admin_df = {}

NameThenSchool(l) ==
    \E i, j \in 1..Len(l) : i < j /\ OccursAt(l, NameLabel, i) /\ OccursAt(l, SchoolLabel, j)

\* C8 (as claimed): an administrative line that holds "Name:" and, later,
\* "School:" gives the record the Name between the two labels, stripped, and
\* the School after "School:".
C8_NameAndSchool ==
    (/\ admin_out.called
     /\ HasTestsLine(lines)
     /\ \E l \in Range(AdminLinesOf(lines)) : NameThenSchool(l))
    => /\ ~admin_out.raised
       /\ {"Name", "School"} \subseteq DOMAIN admin_out.admin_df
       /\ \E l \in Range(AdminLinesOf(lines)) :
             \E i, j \in 1..Len(l) :
                /\ i < j /\ OccursAt(l, NameLabel, i) /\ OccursAt(l, SchoolLabel, j)
                /\ admin_out.admin_df["Name"] = Strip(SubSeq(l, i + 1, j - 1))
                /\ \E k \in 1..Len(l) :
                      /\ OccursAt(l, SchoolLabel, k)
                      /\ admin_out.admin_df["School"] = LStrip(SubSeq(l, k + 1, Len(l)))

---------------------------------------------------------------------------
(* The extraction pipeline: app.py, process_pdf_and_generate_reports, steps 1-4 *)

StopPhrase ==
    <<"STANDARD", " ", "SCORES", " ", "DISCREPANCY", " ", "Interpretation", " ", "at">>

NormsNote == <<"(", "Norms", " ", "based", " ", "on", " ", "age", " ", "1", "5", "-", "4", ")">>

OralHeader ==
    <<"Woodcock", "-", "Johnson", " ", "IV", " ", "Tests", " ", "of", " ", "Oral", " ",
      "Language", " ">> \o NormsNote

AchieveHeader ==
    <<"Woodcock", "-", "Johnson", " ", "IV", " ", "Tests", " ", "of", " ", "Achievement", " ",
      "Form", " ", "A", " ", "and", " ", "Extended", " ">> \o NormsNote

\* A plausible slip: the list kept between calls (a module-level list, or a
\* mutable default argument).
FreshCollected_kept == lines_until_stop

\* collected_lines = []
FreshCollected == <<>>

\* The lines of all pages, in order, up to the first line that holds the stop
\* phrase, appended to the fresh list.
get_all_the_scores_text(all_page_lines, stop_phrase) ==
    LET flat == Concat(all_page_lines)
        hits == {i \in 1..Len(flat) : Contains(flat[i], stop_phrase)}
    IN  FreshCollected \o (IF hits = {} THEN flat ELSE SubSeq(flat, 1, Min(hits) - 1))

\* The words with a lowercase letter, and those all in capitals; every other
\* atom (digits, punctuation, blanks) is uncased.
LowerWords ==
    {"Oral", "Picture", "Vocabulary", "Word", "Attack", "Language", "Tests", "of", "Form",
     "and", "Extended", "Norms", "based", "on", "age", "Woodcock", "Johnson", "Achievement"}
UpperWords == {"ORAL", "LANGUAGE", "BASIC", "READING", "IV", "A"}

\* str(value).isupper(): a cased character, and none of them lowercase.
is_uppercase_value(value) ==
    /\ \E i \in 1..Len(value) : value[i] \in UpperWords
    /\ \A i \in 1..Len(value) : value[i] \notin LowerWords

IsBroad(row) == is_uppercase_value(row.TestCluster)
IsNarrow(row) == ~is_uppercase_value(row.TestCluster)

order_dataframe_by_uppercase_in_column(rows) ==
    IF rows = <<>> THEN rows
    ELSE SelectSeq(rows, IsBroad) \o SelectSeq(rows, IsNarrow)

\* df.rename(columns={'Test/Cluster': 'Test'})
RenameTest(rows) ==
    [i \in 1..Len(rows) |-> [Test |-> rows[i].TestCluster, SS |-> rows[i].SS, PR |-> rows[i].PR]]

\* list.index(x): the first position, 0 standing for ValueError.
IndexOf(ls, x) ==
    IF x \in Range(ls) THEN Min({i \in 1..Len(ls) : ls[i] = x}) ELSE 0

\* Steps 3 and 4: the two slices of the score lines, each read, ordered and
\* renamed.  found = FALSE stands for the ValueError of a missing header.
ScoreTables(new_lines_until_stop) ==
    LET oral_index == IndexOf(new_lines_until_stop, OralHeader)
        achieve_index == IndexOf(new_lines_until_stop, AchieveHeader)
        oral_test_lines == SubSeq(new_lines_until_stop, oral_index, achieve_index - 1)
        achieve_test_lines ==
            SubSeq(new_lines_until_stop, achieve_index, Len(new_lines_until_stop))
    IN  IF oral_index = 0 \/ achieve_index = 0
        THEN [found |-> FALSE, oral_df |-> <<>>, achievement_df |-> <<>>]
        ELSE [found |-> TRUE,
              oral_df |-> RenameTest(order_dataframe_by_uppercase_in_column(
                              extract_test_data(oral_test_lines))),
              achievement_df |-> RenameTest(order_dataframe_by_uppercase_in_column(
                              extract_test_data(achieve_test_lines)))]

\* lines_until_stop[idx_when_scores_start:]
FromIndex(ls, idx) == SubSeq(ls, idx + 1, Len(ls))

\* Inputs: reports of two pages.  lines[0] is the heading, lines[1:10] the
\* administrative block, then the score sections, the stop line and a score
\* line after it.
OralLanguageLine ==
    JoinSpace(<<<<"ORAL">>, <<"LANGUAGE">>, <<"4", "8", "0">>, <<"9", ".", "5">>,
                <<"9", "5">>, <<"3", "7">>>>)
PictureVocabularyLine ==
    JoinSpace(<<<<"Picture">>, <<"Vocabulary">>, <<"4", "7", "5">>, <<"8", ".", "2">>,
                <<"8", "5">>, <<"1", "6">>>>)
BasicReadingLine ==
    JoinSpace(<<<<"BASIC">>, <<"READING">>, <<"4", "9", "0">>, <<"1", "0", ".", "1">>,
                <<"1", "1", "0">>, <<"7", "5">>>>)
WordAttackLine ==
    JoinSpace(<<<<"Word">>, <<"Attack">>, <<"4", "7", "0">>, <<"7", ".", "9">>,
                <<"6", "9">>, <<"2">>>>)
AfterStopLine ==
    JoinSpace(<<<<"Word">>, <<"Attack">>, <<"4", "7", "0">>, <<"7", ".", "9">>,
                <<"7", "0">>, <<"3">>>>)
StopLine == <<"Interpretation", " ">> \o StopPhrase \o <<" ", "1", ".", "5", "0", " ", "SD">>

AdminBlock(name_line, birth_line, sex_line) ==
    <<name_line, birth_line, AgeGradeLine, sex_line, TestingLine, MoreDateLine,
      TestsAdministered, OralName, AchName>>

FullScores ==
    <<OralHeader, PictureVocabularyLine, OralLanguageLine, <<" ">> \o OralLanguageLine,
      AchieveHeader, WordAttackLine, BasicReadingLine, WordAttackLine>>

Report(admin_block, scores) ==
    << <<Heading>> \o admin_block \o SubSeq(scores, 1, 2),
       SubSeq(scores, 3, Len(scores)) \o <<StopLine, AfterStopLine>> >>

ReportNames ==
    {"full.pdf", "oral-empty.pdf", "no-teacher.pdf", "no-name.pdf", "sex-no-id.pdf",
     "no-achievement.pdf", "reversed.pdf"}

ReportPages(name) ==
    CASE name = "full.pdf" ->
            Report(AdminBlock(NameSchoolLine, BirthTeacherLine, SexIdLine), FullScores)
      [] name = "oral-empty.pdf" ->
            Report(AdminBlock(NameSchoolLine, BirthTeacherLine, SexIdLine),
                   <<OralHeader, AchieveHeader, BasicReadingLine>>)
      [] name = "no-teacher.pdf" ->
            Report(AdminBlock(NameSchoolLine, BirthLabel \o <<" ", "01/02/2010">>, SexIdLine),
                   FullScores)
      [] name = "no-name.pdf" ->
            Report(AdminBlock(<<"Name:", " ", "Doe", ",", " ", "Jane">>, BirthTeacherLine,
                              SexIdLine), FullScores)
      [] name = "sex-no-id.pdf" ->
            Report(AdminBlock(NameSchoolLine, BirthTeacherLine, <<"Sex:", " ", "Male">>),
                   FullScores)
      [] name = "no-achievement.pdf" ->
            Report(AdminBlock(NameSchoolLine, BirthTeacherLine, SexIdLine),
                   <<OralHeader, PictureVocabularyLine, OralLanguageLine>>)
      [] name = "reversed.pdf" ->
            Report(AdminBlock(NameSchoolLine, BirthTeacherLine, SexIdLine),
                   <<AchieveHeader, WordAttackLine, OralHeader, OralLanguageLine>>)

PipelineReports == {"full.pdf", "oral-empty.pdf", "sex-no-id.pdf", "reversed.pdf"}

\* The number of runs of the pipeline a behaviour holds.
MaxRuns == 3

InitPipeline == BandIdle /\ ExtractIdle /\ AdminIdle /\ PipeIdle /\ AppIdle /\ RenderIdle

Completed(t) == Append(history, [pages |-> pages, tables |-> t])

\* A run begins: a new call, its locals unbound.
StartRun(name) ==
    /\ pc \in {"idle", "done"}
    /\ Len(history) < MaxRuns
    /\ pages' = ReportPages(name)
    /\ pc' = "text"
    /\ tables' = NoTables
    /\ UNCHANGED <<lines_until_stop, history, bandVars, extractVars, adminVars, appVars, renderVars>>

StepText ==
    /\ pc = "text"
    /\ lines_until_stop' = get_all_the_scores_text(pages, StopPhrase)
    /\ pc' = "admin"
    /\ UNCHANGED <<pages, tables, history, bandVars, extractVars, adminVars, appVars, renderVars>>

StepAdmin ==
    /\ pc = "admin"
    /\ \E r \in {extract_administrative_info_and_make_df(lines_until_stop)} :
          \E t \in {IF r.raised THEN [NoTables EXCEPT !.status = "admin error"]
                    ELSE [NoTables EXCEPT !.status = "admin", !.admin_df = r.admin_df,
                                          !.tests_df = r.tests_df]} :
             /\ tables' = t
             /\ pc' = IF r.raised THEN "done" ELSE "tests"
             /\ history' = IF r.raised THEN Completed(t) ELSE history
    /\ UNCHANGED <<pages, lines_until_stop, bandVars, extractVars, adminVars, appVars, renderVars>>

StepTests ==
    /\ pc = "tests"
    /\ \E s \in {ScoreTables(FromIndex(lines_until_stop, ScoresStart))} :
          \E t \in {IF s.found
                    THEN [tables EXCEPT !.status = "ok", !.oral_df = s.oral_df,
                                        !.achievement_df = s.achievement_df]
                    ELSE [tables EXCEPT !.status = "no sections"]} :
             /\ tables' = t
             /\ history' = Completed(t)
    /\ pc' = "done"
    /\ UNCHANGED <<pages, lines_until_stop, bandVars, extractVars, adminVars, appVars, renderVars>>

NextPipeline ==
    \/ \E name \in PipelineReports : StartRun(name)
    \/ StepText
    \/ StepAdmin
    \/ StepTests

SpecPipeline == InitPipeline /\ [][NextPipeline]_vars

\* The lines of the pages before the first line that holds the stop phrase.
TextOf(pp) ==
    LET flat == Concat(pp)
    IN  SubSeq(flat, 1, Min({i \in 1..Len(flat) : Contains(flat[i], StopPhrase)}) - 1)

\* C9: a run on the same page lines gives the same administrative table,
\* tests table and score tables as every earlier run on them, whatever ran in
\* between, and a finished run leaves its input and the text read from it as
\* they were.
C9_SameInputSameTables ==
    /\ \A i, j \in 1..Len(history) :
          history[i].pages = history[j].pages => history[i].tables = history[j].tables
    /\ pc = "done" => /\ history[Len(history)].pages = pages
                      /\ lines_until_stop = TextOf(pages)

\* C9 witness: the full report was read, then another report, then the full
\* report again, each run to its end.
C9_Witness ==
    /\ pc = "done"
    /\ Len(history) = 3
    /\ history[1].pages = ReportPages("full.pdf")
    /\ history[2].pages = ReportPages("oral-empty.pdf")
    /\ history[3].pages = ReportPages("full.pdf")
    /\ history[3].tables.status = "ok"
    /\ Len(history[3].tables.oral_df) = 2
    /\ Len(history[3].tables.achievement_df) = 2
    /\ Len(history[3].tables.tests_df) = 2

---------------------------------------------------------------------------
(* render_paginated_tables, as far as the pages it emits *)

OralTitle == <<"Woodcock", "-", "Johnson", " ", "IV", " ", "Tests", " ", "of", " ", "Oral", " ", "Language">>
AchievementTitle == <<"Woodcock", "-", "Johnson", " ", "IV", " ", "Tests", " ", "of", " ", "Achievement">>
UnknownAssessment == <<"Unknown", " ", "Assessment">>

\* A dataframe handed to the renderer: its rows (Test, SS, PR) and the title
\* attribute, when one was set.  SS and PR hold Python values.
Frame(titled, title, rows) == [titled |-> titled, title |-> title, rows |-> rows]

\* oral_df.title = ..., on the integer columns extract_test_data built.
Titled(rows, title) ==
    Frame(TRUE, title,
          [i \in 1..Len(rows) |->
              [Test |-> rows[i].Test, SS |-> PyInt(rows[i].SS), PR |-> PyInt(rows[i].PR)]])

\* len(a) of the atoms test names are written with: a word by its spelling,
\* every other atom one character.
Chars(a) ==
    CASE a \in {"of", "on", "IV"} -> 2
      [] a \in {"and", "age"} -> 3
      [] a \in {"Oral", "Word", "Form", "ORAL"} -> 4
      [] a \in {"Tests", "Norms", "based", "BASIC"} -> 5
      [] a \in {"Attack"} -> 6
      [] a \in {"Picture", "Johnson", "READING"} -> 7
      [] a \in {"Language", "Extended", "Woodcock", "LANGUAGE"} -> 8
      [] a \in {"Knowledge"} -> 9
      [] a \in {"Vocabulary"} -> 10
      [] a \in {"Achievement"} -> 11
      [] a \in {"Comprehension"} -> 13
      [] OTHER -> 1

RECURSIVE StrLen(_)
StrLen(s) == IF s = <<>> THEN 0 ELSE Chars(Head(s)) + StrLen(Tail(s))

\* len(current_line): each word of the line and the blank appended after it.
RECURSIVE LineLen(_)
LineLen(current) ==
    IF current = <<>> THEN 0 ELSE StrLen(Head(current)) + 1 + LineLen(Tail(current))

\* The loop of wrap_text: the words left, the words of current_line, the
\* lines appended so far.
RECURSIVE WrapFrom(_, _, _, _)
WrapFrom(words, current, wrapped, max_width) ==
    IF words = <<>> THEN Append(wrapped, JoinSpace(current))
    ELSE IF LineLen(current) + StrLen(Head(words)) + 1 <= max_width
         THEN WrapFrom(Tail(words), Append(current, Head(words)), wrapped, max_width)
         ELSE WrapFrom(Tail(words), <<Head(words)>>, Append(wrapped, JoinSpace(current)),
                       max_width)

NewLine == "\n"

\* "\n".join(lines)
RECURSIVE JoinLines(_)
JoinLines(ls) ==
    IF ls = <<>> THEN <<>>
    ELSE IF Len(ls) = 1 THEN ls[1]
    ELSE ls[1] \o <<NewLine>> \o JoinLines(Tail(ls))

wrap_text(text, max_width) ==
    IF text = <<>> THEN <<>>
    ELSE JoinLines(WrapFrom(Split(text), <<>>, <<>>, max_width))

\* wrap_text(row["Test"], 15)
ColumnWidth == 15

\* The empty string of an unfilled band cell.
EmptyCell == PyStr(<<>>)

\* A plausible slip: every band up to the score's band is filled, as a bar.
create_band_table_bar(df_) ==
    [title |-> IF df_.titled THEN df_.title ELSE UnknownAssessment,
     rows |-> [i \in 1..Len(df_.rows) |->
        [Composite |-> wrap_text(df_.rows[i].Test, ColumnWidth),
         cells |-> [col \in BandLabels |->
                      IF \E m, n \in 1..Len(BandColumns) :
                            /\ BandColumns[m] = col
                            /\ BandColumns[n] = classify_band(df_.rows[i].SS)
                            /\ m <= n
                      THEN df_.rows[i].SS ELSE EmptyCell]]]]

\* create_band_table: one row per row of df, the score in the column of its
\* band and "" in the other band columns.
create_band_table(df_) ==
    [title |-> IF df_.titled THEN df_.title ELSE UnknownAssessment,
     rows |-> [i \in 1..Len(df_.rows) |->
        [Composite |-> wrap_text(df_.rows[i].Test, ColumnWidth),
         cells |-> [col \in BandLabels |->
                      IF col = classify_band(df_.rows[i].SS)
                      THEN df_.rows[i].SS ELSE EmptyCell]]]]

\* add_table_page's header: the student's name, or the fallback of the bare
\* except when admin_df has no Name column.
HeaderText(admin_df) ==
    IF "Name" \in DOMAIN admin_df
    THEN admin_df["Name"] \o <<" ", " ", " ", "Triennial", " ", "Assessment">>
    ELSE <<"Assessment", " ", "Report">>

\* A plausible slip: is_first_page is not cleared after a page is added, so
\* every chunk of the first table rendered carries the flag.
ChunkPages_flagKept(table, k, admin_df, image, is_first_page, max_rows_) ==
    [c \in 1..((Len(table.rows) + max_rows_ - 1) \div max_rows_) |->
        [title |-> table.title,
         header |-> HeaderText(admin_df),
         rows |-> SubSeq(table.rows, (c - 1) * max_rows_ + 1,
                         Min({c * max_rows_, Len(table.rows)})),
         source |-> k,
         start |-> (c - 1) * max_rows_,
         is_first_page |-> is_first_page,
         image |-> is_first_page /\ image]]

\* The inner loop, lines 307-310: one page per chunk of max_rows rows of the
\* k-th dataframe's table, each with the loop variables it was added under.
\* is_first_page is the flag on entry; it is cleared after the first page.
ChunkPages(table, k, admin_df, image, is_first_page, max_rows_) ==
    [c \in 1..((Len(table.rows) + max_rows_ - 1) \div max_rows_) |->
        [title |-> table.title,
         header |-> HeaderText(admin_df),
         rows |-> SubSeq(table.rows, (c - 1) * max_rows_ + 1,
                         Min({c * max_rows_, Len(table.rows)})),
         source |-> k,
         start |-> (c - 1) * max_rows_,
         is_first_page |-> is_first_page /\ c = 1,
         image |-> is_first_page /\ c = 1 /\ image]]

\* The outer loop, lines 298-310, from the k-th dataframe on: an empty
\* dataframe is skipped and leaves the flag as it is.
RECURSIVE RenderFrom(_, _, _, _, _, _)
RenderFrom(dfs, k, is_first_page, admin_df, image, max_rows_) ==
    IF k > Len(dfs) THEN <<>>
    ELSE IF dfs[k].rows = <<>>
         THEN RenderFrom(dfs, k + 1, is_first_page, admin_df, image, max_rows_)
         ELSE ChunkPages(create_band_table(dfs[k]), k, admin_df, image, is_first_page,
                         max_rows_)
                \o RenderFrom(dfs, k + 1, FALSE, admin_df, image, max_rows_)

\* The pages saved to the PDF.  image: the background image file exists.
render_paginated_tables(dfs, admin_df, image, max_rows_) ==
    RenderFrom(dfs, 1, TRUE, admin_df, image, max_rows_)

\* Inputs.  Lists of up to MaxFrames dataframes; a dataframe holds a run of up
\* to MaxFrameRows consecutive rows of RowPool, so that its rows are distinct
\* and their order can be told.  Pages of 1..MaxChunk rows, or the default.
MaxFrames == 2
MaxFrameRows == 3
MaxChunk == 2

ScoreRow(test, v) == [Test |-> test, SS |-> v, PR |-> PyInt(50)]

RowPool ==
    <<ScoreRow(<<"Picture", " ", "Vocabulary">>, PyInt(69)),
      ScoreRow(<<"Comprehension", "-", "Knowledge">>, PyStr(<<"N/A">>)),
      ScoreRow(<<"ORAL", " ", "LANGUAGE">>, PyStr(<<"1", "2", "0">>)),
      ScoreRow(<<"BASIC", " ", "READING">>, PyNaN),
      ScoreRow(<<"Word", " ", "Attack">>, PyFloat(1199)),
      ScoreRow(<<>>, PyNone)>>

BaseRows == SubSeq(RowPool, 1, Min({MaxFrameRows, Len(RowPool)}))

RowRuns ==
    {SubSeq(BaseRows, a, b) : a \in 1..(Len(BaseRows) + 1), b \in 0..Len(BaseRows)}

FramePool ==
    {Frame(TRUE, OralTitle, rows) : rows \in RowRuns}
        \cup {Frame(FALSE, <<>>, rows) : rows \in {<<>>, BaseRows}}

PageSizes == (1..MaxChunk) \cup {MaxRowsPerPage}

NamedAdmin == [k \in {"Name"} |-> <<"Doe", ",", " ", "Jane">>]

InitRender ==
    /\ dataframes \in SeqsUpTo(FramePool, MaxFrames)
    /\ max_rows \in PageSizes
    /\ table_df = NoBandTable
    /\ pdf_pages = NoPages
    /\ BandIdle /\ ExtractIdle /\ AdminIdle /\ PipeIdle /\ AppIdle

RenderFrame == UNCHANGED <<bandVars, extractVars, adminVars, pipeVars, appVars>>

\* create_band_table on the k-th dataframe.
CreateBandTable(k) ==
    /\ ~pdf_pages.called
    /\ \E t \in {create_band_table(dataframes[k])} :
          table_df' = [called |-> TRUE, source |-> k, title |-> t.title, rows |-> t.rows]
    /\ UNCHANGED <<dataframes, max_rows, pdf_pages>>
    /\ RenderFrame

\* render_paginated_tables(dataframes, pdf_filename, admin_df, max_rows)
RenderPaginatedTables(admin_df, image) ==
    /\ ~pdf_pages.called
    /\ pdf_pages' = [called |-> TRUE,
                     pages |-> render_paginated_tables(dataframes, admin_df, image, max_rows)]
    /\ UNCHANGED <<dataframes, max_rows, table_df>>
    /\ RenderFrame

NextRender ==
    \/ \E k \in 1..Len(dataframes) : CreateBandTable(k)
    \/ \E admin_df \in {NoFields, NamedAdmin}, image \in BOOLEAN :
          RenderPaginatedTables(admin_df, image)

SpecRender == InitRender /\ [][NextRender]_vars

\* What float() accepts: the SS values create_band_table can place in a band.
NumericSS(v) == ToFloat(v).err = ""

FilledBands(row) == {col \in BandLabels : row.cells[col] # EmptyCell}

\* C11: in the table create_band_table returns, every row built from a
\* numeric SS holds that SS in exactly one band column, the column
\* classify_band names, and the empty string in the other five.
C11_OneBandCell ==
    table_df.called =>
        /\ Len(table_df.rows) = Len(dataframes[table_df.source].rows)
        /\ \A i \in 1..Len(table_df.rows) :
              LET v == dataframes[table_df.source].rows[i].SS
              IN  NumericSS(v) =>
                    /\ classify_band(v) \in BandLabels
                    /\ FilledBands(table_df.rows[i]) = {classify_band(v)}
                    /\ table_df.rows[i].cells[classify_band(v)] = v
                    /\ Cardinality(FilledBands(table_df.rows[i])) = 1

\* C11 witness: a table of three rows was built, the first from the integer
\* 69 (filled under "Very Low" only), the third from the text "120".
C11_Witness ==
    /\ table_df.called
    /\ Len(table_df.rows) = 3
    /\ FilledBands(table_df.rows[1]) = {"Very Low"}
    /\ table_df.rows[1].cells["Very Low"] = PyInt(69)
    /\ table_df.rows[3].cells["Superior"] = PyStr(<<"1", "2", "0">>)

NonEmptyFrames == {k \in 1..Len(dataframes) : dataframes[k].rows # <<>>}

\* The rows on the pages added for the k-th dataframe, in page order.
RowsPagedFor(k) ==
    LET own == SelectSeq(pdf_pages.pages, LAMBDA pg : pg.source = k)
    IN  Concat([i \in 1..Len(own) |-> own[i].rows])

\* C14: the pages follow the list order of the non-empty dataframes; each
\* holds between 1 and max_rows rows of one dataframe's table; the pages of a
\* dataframe, put end to end, are its table's rows in their order; an empty
\* dataframe has no page; the first-page flag is set on the first page saved
\* and on no other.
C14_Pagination ==
    pdf_pages.called =>
        LET pp == pdf_pages.pages
        IN  /\ \A i \in 1..Len(pp) :
                  /\ Len(pp[i].rows) >= 1
                  /\ Len(pp[i].rows) <= max_rows
                  /\ pp[i].source \in NonEmptyFrames
                  /\ pp[i].is_first_page <=> (i = 1)
            /\ \A i, j \in 1..Len(pp) :
                  i < j => \/ pp[i].source < pp[j].source
                           \/ pp[i].source = pp[j].source /\ pp[i].start < pp[j].start
            /\ \A k \in NonEmptyFrames :
                  RowsPagedFor(k) = create_band_table(dataframes[k]).rows
            /\ \A k \in (1..Len(dataframes)) \ NonEmptyFrames : RowsPagedFor(k) = <<>>

\* C14 witness: an empty dataframe, then one of three rows, rendered two rows
\* to a page: two pages, the flag on the first only.
C14_Witness ==
    /\ pdf_pages.called
    /\ max_rows = 2
    /\ Len(dataframes) = 2
    /\ dataframes[1].rows = <<>>
    /\ Len(dataframes[2].rows) = 3
    /\ Len(pdf_pages.pages) = 2
    /\ pdf_pages.pages[1].is_first_page
    /\ ~pdf_pages.pages[2].is_first_page
    /\ Len(pdf_pages.pages[2].rows) = 1

---------------------------------------------------------------------------
(* app.py: process_pdf_and_generate_reports and the script *)

UnreadableFile == "not-a-pdf.pdf"

PdfFile(pp) == [kind |-> "pdf", pages |-> pp, context |-> NoFields]
DocxFile(ctx) == [kind |-> "docx", pages |-> <<>>, context |-> ctx]

Returned(docx, pdf, files) == [docx_path |-> docx, pdf_path |-> pdf, files |-> files]

\* The template's context, as far as admin_df and the tables decide it.
Context(admin_df, tests_df, oral_df, achievement_df) ==
    [examiner_name |-> admin_df["Teacher"],
     student_full_name |-> admin_df["Name"],
     test_dates |-> [i \in 1..Len(tests_df) |->
                        <<tests_df[i].TestDate>> \o <<" ", "(">> \o tests_df[i].TestAbbrev \o <<")">>],
     oral_tests |-> [i \in 1..Len(oral_df) |-> [SS |-> oral_df[i].SS, PR |-> oral_df[i].PR]],
     achievement_tests |-> [i \in 1..Len(achievement_df) |->
                              [SS |-> achievement_df[i].SS, PR |-> achievement_df[i].PR]]]

\* What lines 45-73 read from the report `name`: the administrative record
\* and the two score tables.
ReadReport(name) ==
    LET text == get_all_the_scores_text(ReportPages(name), StopPhrase)
        admin == extract_administrative_info_and_make_df(text)
    IN  [readable |-> TRUE, admin |-> admin,
         scores |-> ScoreTables(FromIndex(text, admin.idx))]

\* ReadReport of every report, evaluated once.
Reading == [name \in ReportNames |-> ReadReport(name)]

\* A file pdfplumber cannot open: extract_all_page_text raises.
Unread ==
    [readable |-> FALSE, admin |-> AdminRaised,
     scores |-> [found |-> FALSE, oral_df |-> <<>>, achievement_df |-> <<>>]]

\* What the script can read from the uploader's file.
ReadUpload(up) == IF up \in ReportNames THEN Reading[up] ELSE Unread

\* process_pdf_and_generate_reports on a file read as rd, with `made`
\* temporary files written before it: the pair returned and the files
\* written.  The PDF is written, then the template is looked for, then the
\* context is built from the record.  (The copy of the upload that main writes
\* and unlinks around the call is not kept in tmp_files.)
process_pdf_and_generate_reports(rd, template, image, made) ==
    IF ~rd.readable THEN Returned(NoPath, NoPath, <<>>)                 \* lines 129-131
    ELSE IF rd.admin.raised THEN Returned(NoPath, NoPath, <<>>)         \* lines 129-131
    ELSE IF ~rd.scores.found THEN Returned(NoPath, NoPath, <<>>)        \* lines 59-61
    ELSE IF ~template
         THEN Returned(NoPath, made + 1,                                \* lines 86-88
                       <<PdfFile(render_paginated_tables(
                                 <<Titled(rd.scores.oral_df, OralTitle),
                                   Titled(rd.scores.achievement_df, AchievementTitle)>>,
                                 rd.admin.admin_df, image, MaxRowsPerPage))>>)
    ELSE IF ~({"Teacher", "Name"} \subseteq DOMAIN rd.admin.admin_df)
         THEN Returned(NoPath, NoPath,                                  \* KeyError, lines 129-131
                       <<PdfFile(render_paginated_tables(
                                 <<Titled(rd.scores.oral_df, OralTitle),
                                   Titled(rd.scores.achievement_df, AchievementTitle)>>,
                                 rd.admin.admin_df, image, MaxRowsPerPage))>>)
    ELSE Returned(made + 2, made + 1,
                  <<PdfFile(render_paginated_tables(
                            <<Titled(rd.scores.oral_df, OralTitle),
                              Titled(rd.scores.achievement_df, AchievementTitle)>>,
                            rd.admin.admin_df, image, MaxRowsPerPage)),
                    DocxFile(Context(rd.admin.admin_df, rd.admin.tests_df,
                                     rd.scores.oral_df, rd.scores.achievement_df))>>)

\* The temporary files a behaviour may hold.
MaxTmpFiles == 4

AppReports ==
    {"full.pdf", "oral-empty.pdf", "no-teacher.pdf", "no-name.pdf", "sex-no-id.pdf",
     "no-achievement.pdf", UnreadableFile}

InitApp ==
    /\ uploaded_file = NoFile
    /\ session_state = SessionDefaults
    /\ template_exists \in BOOLEAN
    /\ image_exists \in BOOLEAN
    /\ tmp_files = <<>>
    /\ crashed = FALSE
    /\ download = NoDownload
    /\ last_return = NoReturn
    /\ BandIdle /\ ExtractIdle /\ AdminIdle /\ PipeIdle /\ RenderIdle

\* The upload section, lines 224-246: the record parsed from the file is
\* stored before anything reads its columns.
AfterUpload(st, up, rd) ==
    IF up = NoFile \/ ~rd.readable \/ rd.admin.raised THEN st
    ELSE [st EXCEPT !.admin_df = [set |-> TRUE, fields |-> rd.admin.admin_df]]

\* The sidebar, lines 193-202, reads three columns of the stored record.
SidebarRaises(st) ==
    st.admin_df.set /\ ~({"Name", "Age", "Grade"} \subseteq DOMAIN st.admin_df.fields)

\* A plausible slip: the paths returned are stored whether or not the run
\* succeeded.
AfterGenerate_stored(st, r) ==
    [st EXCEPT !.docx_path = r.docx_path, !.pdf_path = r.pdf_path,
               !.generated = st.generated \/ (r.docx_path # NoPath /\ r.pdf_path # NoPath)]

\* Lines 286-292: the paths are stored only when both are returned.
AfterGenerate(st, r) ==
    IF r.docx_path # NoPath /\ r.pdf_path # NoPath
    THEN [st EXCEPT !.docx_path = r.docx_path, !.pdf_path = r.pdf_path, !.generated = TRUE]
    ELSE st

\* Lines 295-317: the download section opens both stored paths.
Opens(st) == st.generated /\ st.docx_path # NoPath /\ st.pdf_path # NoPath

\* One run of the script with the uploader holding `up` and the button
\* `click` ("none", "generate", "reset") pressed.
ScriptRun(up, click) ==
    \E rd \in {ReadUpload(up)} :
    IF SidebarRaises(session_state)
    THEN /\ crashed' = TRUE
         /\ uploaded_file' = up
         /\ download' = NoDownload
         /\ last_return' = NoReturn
         /\ UNCHANGED <<session_state, tmp_files>>
    ELSE IF click = "reset"
    THEN \* session_state.clear(), new widget keys, st.rerun(): the script runs
         \* again from the top with an empty uploader.
         /\ session_state' = SessionDefaults
         /\ uploaded_file' = NoFile
         /\ crashed' = FALSE
         /\ download' = NoDownload
         /\ last_return' = NoReturn
         /\ UNCHANGED tmp_files
    ELSE IF click = "generate" /\ up # NoFile
    THEN \E r \in {process_pdf_and_generate_reports(rd, template_exists, image_exists,
                                                    Len(tmp_files))} :
         \E s2 \in {AfterGenerate(AfterUpload(session_state, up, rd), r)} :
             /\ session_state' = s2
             /\ uploaded_file' = up
             /\ tmp_files' = tmp_files \o r.files
             /\ last_return' = [called |-> TRUE, docx_path |-> r.docx_path,
                                pdf_path |-> r.pdf_path]
             /\ download' = IF Opens(s2) THEN [shown |-> TRUE, docx_path |-> s2.docx_path,
                                               pdf_path |-> s2.pdf_path]
                            ELSE NoDownload
             /\ crashed' = (s2.generated /\ ~Opens(s2))      \* open(None)
    ELSE \E s1 \in {AfterUpload(session_state, up, rd)} :
             /\ session_state' = s1
             /\ uploaded_file' = up
             /\ last_return' = NoReturn
             /\ download' = IF Opens(s1) THEN [shown |-> TRUE, docx_path |-> s1.docx_path,
                                               pdf_path |-> s1.pdf_path]
                            ELSE NoDownload
             /\ crashed' = (s1.generated /\ ~Opens(s1))      \* open(None)
             /\ UNCHANGED tmp_files

AppFrame ==
    UNCHANGED <<template_exists, image_exists, bandVars, extractVars, adminVars, pipeVars,
                renderVars>>

Upload(name) == ~crashed /\ ScriptRun(name, "none") /\ AppFrame

RemoveUpload == ~crashed /\ uploaded_file # NoFile /\ ScriptRun(NoFile, "none") /\ AppFrame

EditForm == ~crashed /\ ScriptRun(uploaded_file, "none") /\ AppFrame

ClickGenerate ==
    /\ ~crashed
    /\ uploaded_file # NoFile
    /\ Len(tmp_files) + 2 <= MaxTmpFiles
    /\ ScriptRun(uploaded_file, "generate")
    /\ AppFrame

ClickReset == ~crashed /\ ScriptRun(uploaded_file, "reset") /\ AppFrame

\* The browser reloads the page: a new session.
ReloadPage ==
    /\ session_state' = SessionDefaults
    /\ uploaded_file' = NoFile
    /\ crashed' = FALSE
    /\ download' = NoDownload
    /\ last_return' = NoReturn
    /\ UNCHANGED tmp_files
    /\ AppFrame

NextApp ==
    \/ \E name \in AppReports : Upload(name)
    \/ RemoveUpload
    \/ EditForm
    \/ ClickGenerate
    \/ ClickReset
    \/ ReloadPage

SpecApp == InitApp /\ [][NextApp]_vars

\* The record and tables the pipeline reads from a report.
AdminOf(name) == Reading[name].admin

SectionsFound(name) == Reading[name].scores.found

\* C6 (as claimed): when the template document or the background image is
\* missing, a Generate Reports run on a report that is otherwise complete
\* still produces the score-band PDF and offers it for download.
C6_DegradedNotWithheld ==
    (/\ last_return.called
     /\ uploaded_file \in ReportNames
     /\ ~AdminOf(uploaded_file).raised
     /\ {"Teacher", "Name"} \subseteq DOMAIN AdminOf(uploaded_file).admin_df
     /\ SectionsFound(uploaded_file)
     /\ ~template_exists \/ ~image_exists)
    => /\ last_return.pdf_path # NoPath
       /\ tmp_files[last_return.pdf_path].kind = "pdf"
       /\ download.shown
       /\ download.pdf_path = last_return.pdf_path

\* C7 (as claimed): when an administrative field is missing from the record
\* (no Teacher, or no Name), process_pdf_and_generate_reports still returns
\* the path of the score-band PDF it generated, not (None, None).
C7_MissingFieldStillPdf ==
    (/\ last_return.called
     /\ uploaded_file \in ReportNames
     /\ ~AdminOf(uploaded_file).raised
     /\ ~({"Teacher", "Name"} \subseteq DOMAIN AdminOf(uploaded_file).admin_df)
     /\ SectionsFound(uploaded_file))
    => /\ last_return.pdf_path # NoPath
       /\ tmp_files[last_return.pdf_path].kind = "pdf"

PathsSet(st) == st.docx_path # NoPath /\ st.pdf_path # NoPath

\* C12 (as claimed): generated is true only when both paths are set, in every
\* reachable state; and a press of Reset All leaves the session with
\* generated false and docx_path, pdf_path and admin_df None.
C12_GeneratedAndReset ==
    /\ [](session_state.generated => PathsSet(session_state))
    /\ [][ClickReset => session_state' = SessionDefaults]_vars

\* A Generate Reports run in which process_pdf_and_generate_reports was
\* called and returned no DOCX path or no PDF path; one in which it returned
\* both.
FailedRun == last_return.called /\ (last_return.docx_path = NoPath \/ last_return.pdf_path = NoPath)
SucceededRun == last_return.called /\ last_return.docx_path # NoPath /\ last_return.pdf_path # NoPath

Offer(st) == <<st.docx_path, st.pdf_path, st.generated>>

\* C13: a Generate Reports run that fails leaves docx_path, pdf_path and
\* generated as they were, and the artifacts of an earlier successful run,
\* untouched, are the ones its download section offers; what is offered
\* changes only by a run that succeeds or by a return to the session defaults
\* (Reset All, or a new session).
C13_FailedRunKeepsOffer ==
    [][/\ FailedRun' =>
            /\ Offer(session_state') = Offer(session_state)
            /\ session_state.generated =>
                  /\ download'.shown
                  /\ download'.docx_path = session_state.docx_path
                  /\ download'.pdf_path = session_state.pdf_path
                  /\ tmp_files'[session_state.docx_path] = tmp_files[session_state.docx_path]
                  /\ tmp_files'[session_state.pdf_path] = tmp_files[session_state.pdf_path]
       /\ Offer(session_state') # Offer(session_state) =>
            \/ SucceededRun' /\ Offer(session_state')
                                  = <<last_return'.docx_path, last_return'.pdf_path, TRUE>>
            \/ session_state' = SessionDefaults]_vars

\* C13 witness: the full report was generated, the report without a teacher
\* was uploaded and its Generate Reports run failed; the download section
\* still offers the full report's two files.
C13_Witness ==
    /\ FailedRun
    /\ uploaded_file = "no-teacher.pdf"
    /\ session_state.generated
    /\ download.shown
    /\ download.docx_path = session_state.docx_path
    /\ download.pdf_path = session_state.pdf_path
    /\ tmp_files[download.docx_path].kind = "docx"
    /\ tmp_files[download.docx_path].context.examiner_name = <<"Smith">>
    /\ tmp_files[download.pdf_path].kind = "pdf"
    /\ Len(tmp_files) = 3

=============================================================================
